---- MODULE Spec2Model ----
(***************************************************************************)
(* AlignService (pbalign/alignservice/align.py): the abstract base of all  *)
(* alignment services.  The model follows the constructor and run() one    *)
(* collaborator call at a time, for one or two service instances that may  *)
(* share one temp-file manager.                                            *)
(***************************************************************************)
EXTENDS Integers, Sequences, FiniteSets, TLC

\* The service instances of a scenario.
Svc == {1, 2}

\* Bound: run() calls started, over all instances.
MaxRuns == 2

\* Python's None, as it appears in string-valued fields.
None == "None"

------------------------------------------------------------------------------
(* Exceptions: a kind (the Python class) and the args tuple.               *)

NoExc == [kind |-> "none", args |-> <<>>]

Exc(kind, args) == [kind |-> kind, args |-> args]

\* str(e) of a BaseException: '' without args, str(args[0]) with one
\* argument, the repr of the args tuple otherwise.
RECURSIVE TupleItems(_)
TupleItems(args) ==
    IF Len(args) = 0 THEN ""
    ELSE "'" \o Head(args) \o "'"
         \o (IF Len(args) > 1 THEN ", " ELSE "") \o TupleItems(Tail(args))

str(e) ==
    IF Len(e.args) = 0 THEN ""
    ELSE IF Len(e.args) = 1 THEN e.args[1]
    ELSE "(" \o TupleItems(e.args) \o ")"

\* `except RuntimeError` matches RuntimeError and its subclasses;
\* NotImplementedError is a subclass of RuntimeError.
RuntimeErrorKinds == {"RuntimeError", "NotImplementedError"}

\* The unimplemented-capability errors of the base class, by member.
NotImplementedMessage(member) ==
    CASE member = "scoreSign" ->
           "Virtual property scoreSign() for AlignService must be overwritten."
      [] member = "_resolveAlgorithmOptions" ->
           "_resolveAlgorithmOptions() method for AlignService must be "
           \o "overridden if --algorithmOptions is specified."
      [] member = "_toCmd" ->
           "_toCmd() method for AlignService must be overridden"
      [] member = "_preProcess" ->
           "_preProcess() method for AlignService must be overridden"
      [] member = "_postProcess" ->
           "_postProcess() method for AlignService must be overridden"

BaseRaisesGeneric(member) == Exc("RuntimeError", <<NotImplementedMessage(member)>>)

\* What a member of the base class does when it is not overridden.
BaseRaises(member) == Exc("NotImplementedError", <<NotImplementedMessage(member)>>)

------------------------------------------------------------------------------
(* Options objects live in a heap; a reference names the instance that     *)
(* made the object and the place that made it.                             *)

Ref(i, tag) == <<i, tag>>
NoRef == <<0, "None">>

\* The options object the caller passes to the constructor of instance i.
callerOptions(i) == Ref(i, "input")

AlgorithmOptionsValues == {None, "", "-noSplitSubreads"}
TmpDirValues == {None, "/a"}
OutputFileNames == {"out.sam", "out.bam", "out.xml", "out.cmp.h5"}

Options(out, alg, tmp) ==
    [inputFileName |-> "a.fofn", referencePath |-> "ref.fasta",
     outputFileName |-> out, regionTable |-> None, pulseFile |-> None,
     algorithmOptions |-> alg, tmpDir |-> tmp, noSplitSubreads |-> None]

AllOptions ==
    {Options(out, alg, tmp) : out \in OutputFileNames,
                              alg \in AlgorithmOptionsValues,
                              tmp \in TmpDirValues}

\* The options of the two-instance scenarios.
PlainOptions ==
    {Options("out.bam", None, tmp) : tmp \in TmpDirValues}

\* copy(options): the reference copy() returns when asked to copy src,
\* fresh being the next unused reference.
CopyAlias(src, fresh) == src

copy(src, fresh) == fresh

\* The heap after `ref = copy(src)`.
HeapAfterCopy(h, src, fresh) ==
    LET ref == copy(src, fresh) IN (ref :> h[src]) @@ h

------------------------------------------------------------------------------
(* The members a backend may override.                                     *)

Members == {"scoreSign", "_resolveAlgorithmOptions", "_toCmd",
            "_preProcess", "_postProcess"}

\* The classes instantiated: the base itself, a complete backend, and
\* backends that leave one member to the base.
Classes == {{}, Members, Members \ {"_resolveAlgorithmOptions"},
            Members \ {"_toCmd"}, Members \ {"_postProcess"}}

------------------------------------------------------------------------------
(* Collaborators of AlignService that live in other modules of pbalign.    *)

\* A path handed out by a temp-file manager.
NoPath == [dir |-> "", n |-> 0, suffix |-> ""]

\* PBAlignFiles before SetInOutFiles.
EmptyFiles ==
    [inputFileName |-> None, targetFileName |-> None, outputFileName |-> None,
     regionTable |-> None, pulseFileName |-> None, queryFileName |-> None,
     alignerSamOut |-> NoPath, isWithinRepository |-> "False"]

\* PBAlignFiles.SetInOutFiles with the file fields of options o, when it
\* accepts the files.
SetInOutFiles(f, o) ==
    [f EXCEPT !.inputFileName = o.inputFileName,
              !.targetFileName = o.referencePath,
              !.outputFileName = o.outputFileName,
              !.regionTable = o.regionTable,
              !.pulseFileName = o.pulseFile]

SetInOutFilesErrors == {Exc("IOError", <<"input file does not exist">>)}

\* importDefaultOptions(options)[0]: the fields left unset get the defaults.
importDefaultOptions(o) ==
    [o EXCEPT !.tmpDir = IF @ = None THEN "/scratch" ELSE @,
              !.noSplitSubreads = IF @ = None THEN "False" ELSE @]

importDefaultOptionsErrors == {Exc("ValueError", <<"bad default option">>)}

\* A backend's override of _resolveAlgorithmOptions: the fields encoded in
\* --algorithmOptions are merged into a new options value.
BackendResolveAlgorithmOptions(o) ==
    IF o.algorithmOptions = "-noSplitSubreads"
    THEN [o EXCEPT !.noSplitSubreads = "True"]
    ELSE o

\* Temp-file managers: the one the caller may pass in, and the one each
\* instance creates for itself otherwise.
NoMgr == "None"
SharedMgr == "shared"
OwnMgr(i) == "own" \o ToString(i)
Mgrs == {SharedMgr} \cup {OwnMgr(i) : i \in Svc}

TempFileManager(rootDir) == [rootDir |-> rootDir, files |-> <<>>]

SetRootDir(m, rootDir) == [m EXCEPT !.rootDir = rootDir]

\* The path RegisterNewTmpFile(suffix) returns, and the manager afterwards.
NewTmpFile(m, sfx) == [dir |-> m.rootDir, n |-> Len(m.files) + 1, suffix |-> sfx]

RegisterNewTmpFile(m, sfx) == [m EXCEPT !.files = Append(@, NewTmpFile(m, sfx))]

TempFileManagerErrors == {Exc("OSError", <<"cannot create directory">>)}

\* getFileFormat: the format of a file, by its extension.
getFileFormat(name) ==
    CASE name = "out.sam" -> "SAM"
      [] name = "out.bam" -> "BAM"
      [] name = "out.xml" -> "XML"
      [] name = "out.cmp.h5" -> "CMP"
      [] OTHER -> "UNKNOWN"

\* A backend's hooks.
QueryFileNames == {"query.fasta"}
PreProcessErrors == {Exc("IOError", <<"cannot read input">>)}
PostProcessErrors == {Exc("RuntimeError", <<"samtools failed">>)}

NoCmd == [query |-> None, target |-> None, out |-> NoPath, noSplit |-> None]

\* A backend's _toCmd: the command line, from the options and the file set.
BackendToCmd(o, f) ==
    [query |-> f.queryFileName, target |-> f.targetFileName,
     out |-> f.alignerSamOut, noSplit |-> o.noSplitSubreads]

\* Service._execute: what running the command gives.
NoTriple == [output |-> None, errCode |-> 0, errMsg |-> None]

ExecuteReturns ==
    {[output |-> "stdout", errCode |-> c, errMsg |-> m] :
        c \in {0, 1}, m \in {"", "err"}}

ExecuteErrors ==
    {Exc("RuntimeError", <<"aligner crashed">>),
     Exc("RuntimeError", <<"aligner failed", "1">>),
     Exc("OSError", <<"aligner crashed">>)}

------------------------------------------------------------------------------
(* AlignService                                                            *)

\* The base _resolveAlgorithmOptions on the options object src of heap h:
\* the error raised (NoExc if none), the reference returned, the heap.
ResolveAlwaysCopies(h, src, fresh) ==
    [exc |-> NoExc, ref |-> copy(src, fresh), heap |-> HeapAfterCopy(h, src, fresh)]

ResolveInPlace(h, src, fresh) ==
    IF h[src].algorithmOptions = None \/ h[src].algorithmOptions = ""
    THEN [exc |-> NoExc, ref |-> src, heap |-> h]
    ELSE [exc |-> BaseRaises("_resolveAlgorithmOptions"), ref |-> NoRef,
          heap |-> h]

_resolveAlgorithmOptions(h, src, fresh) ==
    IF h[src].algorithmOptions = None \/ h[src].algorithmOptions = ""
    THEN [exc |-> NoExc, ref |-> copy(src, fresh),
          heap |-> HeapAfterCopy(h, src, fresh)]
    ELSE [exc |-> BaseRaises("_resolveAlgorithmOptions"), ref |-> NoRef,
          heap |-> h]

\* The collaborator calls of __init__, in the order of its statements.
CtorOrderPatchFirst ==
    <<"SetInOutFiles", "importDefaultOptions", "_resolveAlgorithmOptions",
      "TempFileManager">>

CtorOrderManagerBeforePatch ==
    <<"SetInOutFiles", "_resolveAlgorithmOptions", "TempFileManager",
      "importDefaultOptions">>

CtorOrderFilesLast ==
    <<"_resolveAlgorithmOptions", "importDefaultOptions", "TempFileManager",
      "SetInOutFiles">>

CtorOrder ==
    <<"SetInOutFiles", "_resolveAlgorithmOptions", "importDefaultOptions",
      "TempFileManager">>

\* __init__ with a manager passed in: the manager after the else branch.
AdoptWithoutRescope(m, tmpDir) == m

AdoptTempFileManager(m, tmpDir) == SetRootDir(m, tmpDir)

\* The collaborator calls of run(), in the order of its statements.
RunOrderPostFirst ==
    <<"_preProcess", "RegisterNewTmpFile", "_postProcess", "_execute">>

RunOrderRetry ==
    <<"_preProcess", "RegisterNewTmpFile", "_execute", "_execute",
      "_postProcess">>

RunOrderExecFirst ==
    <<"_preProcess", "_execute", "RegisterNewTmpFile", "_postProcess">>

RunOrderRegisterFirst ==
    <<"RegisterNewTmpFile", "_preProcess", "_execute", "_postProcess">>

RunOrder == <<"_preProcess", "RegisterNewTmpFile", "_execute", "_postProcess">>

\* run(): the suffix of the aligner's output, from the output format.
suffixBamOnly(outFormat) == IF outFormat = "BAM" THEN ".bam" ELSE ".sam"

suffix(outFormat) ==
    IF outFormat = "BAM" \/ outFormat = "XML" THEN ".bam" ELSE ".sam"

\* run(): `except RuntimeError as e` catches e.
CaughtAny(e) == TRUE

Caught(e) == e.kind \in RuntimeErrorKinds

\* run(): `raise RuntimeError(str(e))`.
ReraiseBare(e) == Exc("RuntimeError", <<>>)

Reraise(e) == Exc("RuntimeError", <<str(e)>>)

\* run(): the error that leaves the try statement when _execute raises e
\* (NoExc if none does).
ExceptClauseSwallows(e) == NoExc

ExceptClause(e) == IF Caught(e) THEN Reraise(e) ELSE e

\* run(): `return output, errCode, errMsg`.
ReturnValueOk(t) == [t EXCEPT !.errCode = 0]

ReturnValue(t) == t

------------------------------------------------------------------------------
VARIABLES
    class,               \* per instance: the members its class overrides
    tempFileManagerArg,  \* per instance: the manager passed to __init__
    heap,                \* the options objects, by reference
    _fileNames,          \* per instance: its PBAlignFiles object
    _options,            \* per instance: self._options, a reference
    _tempFileManager,    \* per instance: self._tempFileManager, a manager
    mgr,                 \* the temp-file managers
    pc,                  \* per instance: the call in progress and its step
    runs,                \* run() calls started
    initResult,          \* per instance: how __init__ ended
    runResult,           \* per instance: how the last run() ended
    lastAccess,          \* the access of cmd or scoreSign the last step made
    ctorCalls,           \* per instance: collaborator calls made by __init__
    runCalls,            \* per instance: calls made by the current run()
    execOutcome,         \* per instance: what _execute did in this run()
    resolved,            \* per instance: what _resolveAlgorithmOptions returned
    scopedBy,            \* per manager: the instance that last set its root
    allocations          \* the temp files registered, with who and when

inputs == <<class, tempFileManagerArg>>
objects == <<heap, _fileNames, _options, _tempFileManager, mgr>>
results == <<initResult, runResult, lastAccess>>

history == <<ctorCalls, runCalls, execOutcome, resolved, scopedBy, allocations>>
vars == <<inputs, objects, pc, runs, results, history>>

At(call, at) == [call |-> call, at |-> at]
NoResult == [status |-> "none", exc |-> NoExc, value |-> NoTriple]
NoOutcome == [status |-> "none", exc |-> NoExc, value |-> NoTriple, cmd |-> NoCmd]
NoAccess == [svc |-> 0, member |-> None, exc |-> NoExc, cmd |-> NoCmd, sign |-> 0]

\* Before any constructor: the instances in `present` are about to be built
\* from classes, options and manager arguments of the given sets.
Start(present, classes, options, managers) ==
    /\ class \in [Svc -> classes \cup {{}}]
    /\ \A i \in Svc : IF i \in present THEN class[i] \in classes
                                        ELSE class[i] = {}
    /\ tempFileManagerArg \in [Svc -> managers \cup {NoMgr}]
    /\ \A i \in Svc : IF i \in present THEN tempFileManagerArg[i] \in managers
                                        ELSE tempFileManagerArg[i] = NoMgr
    /\ \E os \in [present -> options] :
          heap = [r \in {callerOptions(i) : i \in present} |-> os[r[1]]]
    /\ _fileNames = [i \in Svc |-> EmptyFiles]
    /\ _options = [i \in Svc |-> NoRef]
    /\ _tempFileManager = [i \in Svc |-> NoMgr]
    /\ mgr = [m \in Mgrs |-> TempFileManager("")]
    /\ pc = [i \in Svc |-> IF i \in present THEN At("new", 0) ELSE At("absent", 0)]
    /\ runs = 0
    /\ initResult = [i \in Svc |-> NoResult]
    /\ runResult = [i \in Svc |-> NoResult]
    /\ lastAccess = NoAccess
    /\ ctorCalls = [i \in Svc |-> <<>>]
    /\ runCalls = [i \in Svc |-> <<>>]
    /\ execOutcome = [i \in Svc |-> NoOutcome]
    /\ resolved = [i \in Svc |-> NoRef]
    /\ scopedBy = [m \in Mgrs |-> 0]
    /\ allocations = {}

\* One instance, of any class, built from any options.
Init == Start({1}, Classes, AllOptions, {NoMgr, SharedMgr})

\* Two complete backends that are passed the same temp-file manager.
InitShared == Start(Svc, {Members}, PlainOptions, {SharedMgr})

------------------------------------------------------------------------------
(* __init__                                                                *)

AtCtor(i, step) == pc[i].call = "__init__" /\ CtorOrder[pc[i].at] = step

\* __init__ goes on to its next statement, or returns.
CtorAdvances(i, step) ==
    /\ ctorCalls' = [ctorCalls EXCEPT ![i] = Append(@, step)]
    /\ IF pc[i].at = Len(CtorOrder)
       THEN /\ pc' = [pc EXCEPT ![i] = At("ready", 0)]
            /\ initResult' = [initResult EXCEPT ![i].status = "returned"]
       ELSE /\ pc' = [pc EXCEPT ![i] = At("__init__", @.at + 1)]
            /\ UNCHANGED initResult

\* A collaborator raises: the error leaves __init__.
CtorRaises(i, step, e) ==
    /\ ctorCalls' = [ctorCalls EXCEPT ![i] = Append(@, step)]
    /\ pc' = [pc EXCEPT ![i] = At("failed", 0)]
    /\ initResult' = [initResult EXCEPT ![i] =
                          [status |-> "raised", exc |-> e, value |-> NoTriple]]

\* self._options = options; self._fileNames = fileNames
Init_Bind(i) ==
    /\ pc[i].call = "new"
    /\ pc' = [pc EXCEPT ![i] = At("__init__", 1)]
    /\ _options' = [_options EXCEPT ![i] = callerOptions(i)]
    /\ UNCHANGED <<inputs, heap, _fileNames, _tempFileManager, mgr, runs,
                   initResult, runResult, history>>
    /\ lastAccess' = NoAccess

\* self._fileNames.SetInOutFiles(...)
Init_SetInOutFiles(i) ==
    /\ AtCtor(i, "SetInOutFiles")
    /\ \/ /\ _fileNames' = [_fileNames EXCEPT
                                ![i] = SetInOutFiles(@, heap[_options[i]])]
          /\ CtorAdvances(i, "SetInOutFiles")
       \/ /\ \E e \in SetInOutFilesErrors : CtorRaises(i, "SetInOutFiles", e)
          /\ UNCHANGED _fileNames
    /\ UNCHANGED <<inputs, heap, _options, _tempFileManager, mgr, runs,
                   runResult, runCalls, execOutcome, resolved,
                   scopedBy, allocations>>
    /\ lastAccess' = NoAccess

\* self._options = self._resolveAlgorithmOptions(self._options, self._fileNames)
Init_resolveAlgorithmOptions(i) ==
    /\ AtCtor(i, "_resolveAlgorithmOptions")
    /\ LET fresh == Ref(i, "resolved")
           r == IF "_resolveAlgorithmOptions" \in class[i]
                THEN [exc |-> NoExc, ref |-> fresh,
                      heap |-> (fresh :> BackendResolveAlgorithmOptions(
                                             heap[_options[i]])) @@ heap]
                ELSE _resolveAlgorithmOptions(heap, _options[i], fresh)
       IN  IF r.exc = NoExc
           THEN /\ heap' = r.heap
                /\ _options' = [_options EXCEPT ![i] = r.ref]
                /\ resolved' = [resolved EXCEPT ![i] = r.ref]
                /\ CtorAdvances(i, "_resolveAlgorithmOptions")
           ELSE /\ CtorRaises(i, "_resolveAlgorithmOptions", r.exc)
                /\ UNCHANGED <<heap, _options, resolved>>
    /\ UNCHANGED <<inputs, _fileNames, _tempFileManager, mgr, runs, runResult, runCalls, execOutcome, scopedBy, allocations>>
    /\ lastAccess' = NoAccess

\* self._options = importDefaultOptions(self._options)[0]
Init_importDefaultOptions(i) ==
    /\ AtCtor(i, "importDefaultOptions")
    /\ \/ LET fresh == Ref(i, "patched")
          IN  /\ heap' = (fresh :> importDefaultOptions(heap[_options[i]])) @@ heap
              /\ _options' = [_options EXCEPT ![i] = fresh]
              /\ CtorAdvances(i, "importDefaultOptions")
       \/ /\ \E e \in importDefaultOptionsErrors :
                 CtorRaises(i, "importDefaultOptions", e)
          /\ UNCHANGED <<heap, _options>>
    /\ UNCHANGED <<inputs, _fileNames, _tempFileManager, mgr, runs, runResult, runCalls, execOutcome, resolved, scopedBy,
                   allocations>>
    /\ lastAccess' = NoAccess

\* if tempFileManager is None: ... else: ...
Init_TempFileManager(i) ==
    /\ AtCtor(i, "TempFileManager")
    /\ LET tmpDir == heap[_options[i]].tmpDir
           m == IF tempFileManagerArg[i] = NoMgr THEN OwnMgr(i)
                ELSE tempFileManagerArg[i]
       IN  \/ /\ mgr' = [mgr EXCEPT ![m] =
                            IF tempFileManagerArg[i] = NoMgr
                            THEN TempFileManager(tmpDir)
                            ELSE AdoptTempFileManager(@, tmpDir)]
              /\ _tempFileManager' = [_tempFileManager EXCEPT ![i] = m]
              /\ scopedBy' = [scopedBy EXCEPT ![m] = i]
              /\ CtorAdvances(i, "TempFileManager")
           \/ /\ \E e \in TempFileManagerErrors :
                     CtorRaises(i, "TempFileManager", e)
              \* the manager passed in is bound before SetRootDir is called
              /\ _tempFileManager' = [_tempFileManager EXCEPT
                     ![i] = tempFileManagerArg[i]]
              /\ UNCHANGED <<mgr, scopedBy>>
    /\ UNCHANGED <<inputs, heap, _fileNames, _options, runs, runResult, runCalls, execOutcome, resolved, allocations>>
    /\ lastAccess' = NoAccess

------------------------------------------------------------------------------
(* run()                                                                   *)

AtRun(i, step) == pc[i].call = "run" /\ RunOrder[pc[i].at] = step

\* run() goes on to its next statement, or returns the triple t.
RunAdvances(i, t) ==
    IF pc[i].at = Len(RunOrder)
    THEN /\ pc' = [pc EXCEPT ![i] = At("ready", 0)]
         /\ runResult' = [runResult EXCEPT ![i] =
                [status |-> "returned", exc |-> NoExc, value |-> ReturnValue(t)]]
    ELSE /\ pc' = [pc EXCEPT ![i] = At("run", @.at + 1)]
         /\ UNCHANGED runResult

\* An error leaves run().
RunRaises(i, e) ==
    /\ pc' = [pc EXCEPT ![i] = At("ready", 0)]
    /\ runResult' = [runResult EXCEPT ![i] =
                        [status |-> "raised", exc |-> e, value |-> NoTriple]]

\* run() is called on a constructed instance; logging.info(...)
Run_Begin(i) ==
    /\ pc[i].call = "ready"
    /\ runs < MaxRuns
    /\ runs' = runs + 1
    /\ pc' = [pc EXCEPT ![i] = At("run", 1)]
    /\ runResult' = [runResult EXCEPT ![i] = NoResult]
    /\ runCalls' = [runCalls EXCEPT ![i] = <<>>]
    /\ execOutcome' = [execOutcome EXCEPT ![i] = NoOutcome]
    /\ UNCHANGED <<inputs, objects, initResult, ctorCalls,
                   resolved, scopedBy, allocations>>
    /\ lastAccess' = NoAccess

\* self._fileNames.queryFileName = self._preProcess(...)
Run_preProcess(i) ==
    /\ AtRun(i, "_preProcess")
    /\ runCalls' = [runCalls EXCEPT ![i] = Append(@, "_preProcess")]
    /\ IF "_preProcess" \in class[i]
       THEN \/ \E q \in QueryFileNames :
                 /\ _fileNames' = [_fileNames EXCEPT ![i].queryFileName = q]
                 /\ RunAdvances(i, execOutcome[i].value)
            \/ /\ \E e \in PreProcessErrors : RunRaises(i, e)
               /\ UNCHANGED _fileNames
       ELSE /\ RunRaises(i, BaseRaises("_preProcess"))
            /\ UNCHANGED _fileNames
    /\ UNCHANGED <<inputs, heap, _options, _tempFileManager, mgr, runs,
                   initResult, ctorCalls, execOutcome, resolved,
                   scopedBy, allocations>>
    /\ lastAccess' = NoAccess

\* outFormat = getFileFormat(...); suffix = ...;
\* self._fileNames.alignerSamOut = self._tempFileManager.RegisterNewTmpFile(...)
Run_RegisterNewTmpFile(i) ==
    /\ AtRun(i, "RegisterNewTmpFile")
    /\ runCalls' = [runCalls EXCEPT ![i] = Append(@, "RegisterNewTmpFile")]
    /\ LET outFormat == getFileFormat(_fileNames[i].outputFileName)
           sfx == suffix(outFormat)
           m == _tempFileManager[i]
           path == NewTmpFile(mgr[m], sfx)
       IN  \/ /\ mgr' = [mgr EXCEPT ![m] = RegisterNewTmpFile(@, sfx)]
              /\ _fileNames' = [_fileNames EXCEPT ![i].alignerSamOut = path]
              /\ allocations' = allocations \cup
                     {[mgr |-> m, path |-> path, by |-> i,
                       scopedBy |-> scopedBy[m]]}
              /\ RunAdvances(i, execOutcome[i].value)
           \/ /\ \E e \in TempFileManagerErrors : RunRaises(i, e)
              /\ UNCHANGED <<mgr, _fileNames, allocations>>
    /\ UNCHANGED <<inputs, heap, _options, _tempFileManager, runs, initResult, ctorCalls, execOutcome, resolved, scopedBy>>
    /\ lastAccess' = NoAccess

\* The property cmd of an instance whose class overrides _toCmd:
\* self._toCmd(self._options, self._fileNames, self._tempFileManager)
cmdCachedAtConstruction(i) ==
    BackendToCmd(heap[_options[i]],
                 [_fileNames[i] EXCEPT !.queryFileName = None,
                                       !.alignerSamOut = NoPath])

cmd(i) == BackendToCmd(heap[_options[i]], _fileNames[i])

\* What self._execute() can do: it builds self.cmd and runs it.
ExecuteOutcomes(i) ==
    IF "_toCmd" \in class[i]
    THEN LET c == cmd(i)
         IN  {[status |-> "returned", exc |-> NoExc, value |-> t, cmd |-> c] :
                 t \in ExecuteReturns}
             \cup
             {[status |-> "raised", exc |-> e, value |-> NoTriple, cmd |-> c] :
                 e \in ExecuteErrors}
    ELSE {[status |-> "raised", exc |-> BaseRaises("_toCmd"),
           value |-> NoTriple, cmd |-> NoCmd]}

\* try: output, errCode, errMsg = self._execute()
\* except RuntimeError as e: raise RuntimeError(str(e))
Run_execute(i) ==
    /\ AtRun(i, "_execute")
    /\ runCalls' = [runCalls EXCEPT ![i] = @ \o <<"_execute", "_toCmd">>]
    /\ \E x \in ExecuteOutcomes(i) :
          /\ execOutcome' = [execOutcome EXCEPT ![i] = x]
          /\ IF x.status = "returned"
             THEN RunAdvances(i, x.value)
             ELSE IF ExceptClause(x.exc) = NoExc
             THEN RunAdvances(i, x.value)
             ELSE RunRaises(i, ExceptClause(x.exc))
    /\ UNCHANGED <<inputs, objects, runs, initResult, ctorCalls,
                   resolved, scopedBy, allocations>>
    /\ lastAccess' = NoAccess

\* self._postProcess()
Run_postProcess(i) ==
    /\ AtRun(i, "_postProcess")
    /\ runCalls' = [runCalls EXCEPT ![i] = Append(@, "_postProcess")]
    /\ IF "_postProcess" \in class[i]
       THEN \/ RunAdvances(i, execOutcome[i].value)
            \/ \E e \in PostProcessErrors : RunRaises(i, e)
       ELSE RunRaises(i, BaseRaises("_postProcess"))
    /\ UNCHANGED <<inputs, objects, runs, initResult, ctorCalls,
                   execOutcome, resolved, scopedBy, allocations>>
    /\ lastAccess' = NoAccess

------------------------------------------------------------------------------
(* The properties cmd and scoreSign, read on a constructed instance.       *)

\* return self._toCmd(self._options, self._fileNames, self._tempFileManager)
AccessCmd(i) ==
    /\ pc[i].call = "ready"
    /\ lastAccess' =
          IF "_toCmd" \in class[i]
          THEN [svc |-> i, member |-> "cmd", exc |-> NoExc, sign |-> 0,
                cmd |-> cmd(i)]
          ELSE [svc |-> i, member |-> "cmd", exc |-> BaseRaises("_toCmd"),
                sign |-> 0, cmd |-> NoCmd]
    /\ UNCHANGED <<inputs, objects, pc, runs, initResult, runResult, history>>

AccessScoreSign(i) ==
    /\ pc[i].call = "ready"
    /\ IF "scoreSign" \in class[i]
       THEN \E sign \in {-1, 1} :
               lastAccess' = [svc |-> i, member |-> "scoreSign", exc |-> NoExc,
                              sign |-> sign, cmd |-> NoCmd]
       ELSE lastAccess' = [svc |-> i, member |-> "scoreSign",
                           exc |-> BaseRaises("scoreSign"), sign |-> 0,
                           cmd |-> NoCmd]
    /\ UNCHANGED <<inputs, objects, pc, runs, initResult, runResult, history>>

------------------------------------------------------------------------------
Next ==
    \E i \in Svc :
       \/ Init_Bind(i)
       \/ Init_SetInOutFiles(i)
       \/ Init_resolveAlgorithmOptions(i)
       \/ Init_importDefaultOptions(i)
       \/ Init_TempFileManager(i)
       \/ Run_Begin(i)
       \/ Run_preProcess(i)
       \/ Run_RegisterNewTmpFile(i)
       \/ Run_execute(i)
       \/ Run_postProcess(i)
       \/ AccessCmd(i)
       \/ AccessScoreSign(i)

Spec == Init /\ [][Next]_vars

SpecShared == InitShared /\ [][Next]_vars

\* A run() that was called keeps executing: each collaborator call it has
\* reached is made, and returns or raises.
RunProceeds ==
    \A i \in Svc :
       /\ WF_vars(Run_preProcess(i))
       /\ WF_vars(Run_RegisterNewTmpFile(i))
       /\ WF_vars(Run_execute(i))
       /\ WF_vars(Run_postProcess(i))

SpecFair == Spec /\ RunProceeds

------------------------------------------------------------------------------
(* Properties                                                              *)

\* How often x occurs in the sequence s, and where first (0 if nowhere).
Count(s, x) == Cardinality({k \in 1..Len(s) : s[k] = x})
Pos(s, x) == IF Count(s, x) = 0 THEN 0
             ELSE CHOOSE k \in 1..Len(s) : s[k] = x /\ \A j \in 1..(k - 1) : s[j] # x

\* The run() call of instance i is over.
RunEnded(i) == runResult[i].status # "none"

\* Instance i is a backend that overrides the three hooks of run().
Concrete(i) == {"_preProcess", "_toCmd", "_postProcess"} \subseteq class[i]

\* C1: in every run() of a concrete backend _preProcess is invoked exactly
\* once, before the command is built and before _execute starts, and
\* _postProcess is invoked exactly once after _execute returns, whatever
\* the exit code; it is never invoked before _execute has returned.
C1_PreOnceBeforePostOnceAfter ==
    \A i \in Svc : Concrete(i) =>
       LET c == runCalls[i] IN
       /\ Count(c, "_preProcess") <= 1
       /\ Count(c, "_postProcess") <= 1
       /\ (pc[i].call = "run" /\ pc[i].at > 1) \/ RunEnded(i)
             => Count(c, "_preProcess") = 1
       /\ \A later \in {"_toCmd", "_execute"} :
             Pos(c, later) > 0 => Pos(c, "_preProcess") \in 1..(Pos(c, later) - 1)
       /\ Pos(c, "_postProcess") > 0 =>
             /\ execOutcome[i].status = "returned"
             /\ Pos(c, "_execute") \in 1..(Pos(c, "_postProcess") - 1)
       /\ RunEnded(i) /\ execOutcome[i].status = "returned" =>
             Count(c, "_postProcess") = 1

\* A run() of a concrete backend is over whose _execute returned a
\* non-zero exit code and whose _postProcess was invoked.
C1_Witness ==
    \E i \in Svc :
       /\ Concrete(i) /\ RunEnded(i)
       /\ execOutcome[i].status = "returned" /\ execOutcome[i].value.errCode = 1
       /\ runCalls[i] = <<"_preProcess", "RegisterNewTmpFile", "_execute",
                          "_toCmd", "_postProcess">>

\* C2: if _execute raises during run(), run() raises an error whose message
\* text is that of the error _execute raised, and _postProcess has not been
\* invoked in that run.
C2_ExecuteRaisesSameMessageNoPost ==
    \A i \in Svc : execOutcome[i].status = "raised" =>
       /\ runResult[i].status = "raised"
       /\ str(runResult[i].exc) = str(execOutcome[i].exc)
       /\ Count(runCalls[i], "_postProcess") = 0

\* _execute raised a RuntimeError with two arguments, whose text is the
\* repr of the pair.
C2_Witness ==
    \E i \in Svc :
       /\ execOutcome[i].exc = Exc("RuntimeError", <<"aligner failed", "1">>)
       /\ runResult[i].status = "raised"
       /\ str(runResult[i].exc) = "('aligner failed', '1')"

\* C3 as stated: whatever the kind of the error _execute raises, run()
\* raises the generic RuntimeError with the same message text.
C3_AnyKindBecomesRuntimeError ==
    \A i \in Svc : execOutcome[i].status = "raised" =>
       /\ runResult[i].status = "raised"
       /\ runResult[i].exc.kind = "RuntimeError"
       /\ str(runResult[i].exc) = str(execOutcome[i].exc)

\* C3, amended: an error of _execute that is a RuntimeError (or of a
\* subclass, such as NotImplementedError) leaves run() as a plain
\* RuntimeError whose one argument is the text of the original; an error
\* of any other kind leaves run() as it is, kind and arguments.
C3_OnlyRuntimeErrorsRewrapped ==
    \A i \in Svc : execOutcome[i].status = "raised" =>
       /\ runResult[i].status = "raised"
       /\ IF execOutcome[i].exc.kind \in RuntimeErrorKinds
          THEN runResult[i].exc = Exc("RuntimeError", <<str(execOutcome[i].exc)>>)
          ELSE runResult[i].exc = execOutcome[i].exc

\* _execute raised an OSError and run() raised it on, still an OSError.
C3_Witness ==
    \E i \in Svc :
       /\ execOutcome[i].status = "raised"
       /\ execOutcome[i].exc.kind = "OSError"
       /\ runResult[i].exc.kind = "OSError"

\* C4: when run() returns, it returns the triple _execute returned; and
\* when _execute has returned, run() raises only an error that
\* _postProcess raised, so a non-zero exit code alone never makes it raise.
C4_ReturnsTripleOfExecute ==
    \A i \in Svc :
       /\ runResult[i].status = "returned" =>
             /\ execOutcome[i].status = "returned"
             /\ runResult[i].value = execOutcome[i].value
       /\ runResult[i].status = "raised" /\ execOutcome[i].status = "returned" =>
             /\ Count(runCalls[i], "_postProcess") = 1
             /\ runResult[i].exc \in PostProcessErrors \cup {BaseRaises("_postProcess")}

\* run() has returned a triple with a non-zero exit code.
C4_Witness ==
    \E i \in Svc :
       /\ runResult[i].status = "returned"
       /\ runResult[i].value.errCode = 1
       /\ runResult[i].value.errMsg = "err"

\* C5: the temp file run() registers and stores in fileNames.alignerSamOut
\* is registered with the instance's manager and has suffix .bam when the
\* output file is of format BAM or XML, and .sam for every other format.
C5_SuffixByOutputFormat ==
    /\ \A i \in Svc : _fileNames[i].alignerSamOut # NoPath =>
          /\ \E k \in 1..Len(mgr[_tempFileManager[i]].files) :
                mgr[_tempFileManager[i]].files[k] = _fileNames[i].alignerSamOut
          /\ [mgr |-> _tempFileManager[i], by |-> i,
              path |-> _fileNames[i].alignerSamOut] \in
                {[mgr |-> a.mgr, by |-> a.by, path |-> a.path] : a \in allocations}
    /\ \A a \in allocations :
          LET format == getFileFormat(_fileNames[a.by].outputFileName) IN
          /\ format \in {"BAM", "XML"} => a.path.suffix = ".bam"
          /\ format \notin {"BAM", "XML"} => a.path.suffix = ".sam"

\* An XML output file got a .bam temp file.
C5_Witness ==
    \E i \in Svc :
       /\ _fileNames[i].outputFileName = "out.xml"
       /\ _fileNames[i].alignerSamOut.suffix = ".bam"

\* C6: an instance registers a temp file or builds a command only after its
\* constructor has completed option resolution: the algorithm-options merge
\* and then the default patch.
C6_ResolutionBeforeAllocationAndCmd ==
    \A i \in Svc :
       \/ \E a \in allocations : a.by = i
       \/ Count(runCalls[i], "_toCmd") > 0
       \/ (lastAccess.svc = i /\ lastAccess.member = "cmd")
       => /\ Pos(ctorCalls[i], "_resolveAlgorithmOptions") > 0
          /\ Pos(ctorCalls[i], "_resolveAlgorithmOptions")
                < Pos(ctorCalls[i], "importDefaultOptions")
          /\ _options[i] = Ref(i, "patched")
          /\ heap[_options[i]] = importDefaultOptions(heap[resolved[i]])

\* An instance has registered a temp file and built a command.
C6_Witness ==
    \E i \in Svc :
       /\ \E a \in allocations : a.by = i
       /\ Count(runCalls[i], "_toCmd") > 0
       /\ heap[callerOptions(i)].tmpDir = None

\* Instance i has no override of _resolveAlgorithmOptions and its
\* constructor has invoked the base one.
BaseResolutionInvoked(i) ==
    /\ "_resolveAlgorithmOptions" \notin class[i]
    /\ Count(ctorCalls[i], "_resolveAlgorithmOptions") > 0

\* C7: for options whose algorithmOptions is None or empty, the base
\* _resolveAlgorithmOptions returns an object distinct from the one it was
\* given, with the same content.
C7_BaseResolutionCopies ==
    \A i \in Svc :
       /\ BaseResolutionInvoked(i)
       /\ heap[callerOptions(i)].algorithmOptions \in {None, ""}
       => /\ resolved[i] # NoRef
          /\ resolved[i] # callerOptions(i)
          /\ heap[resolved[i]] = heap[callerOptions(i)]

\* The base resolution has returned for options with an empty string.
C7_Witness ==
    \E i \in Svc :
       /\ BaseResolutionInvoked(i)
       /\ heap[callerOptions(i)].algorithmOptions = ""
       /\ resolved[i] = Ref(i, "resolved")

\* C8: for options whose algorithmOptions is non-empty, on a class without
\* an override, resolution raises NotImplementedError and the constructor
\* fails with that error; such an instance is never constructed.
C8_BaseResolutionRaises ==
    \A i \in Svc :
       /\ pc[i].call # "absent"
       /\ "_resolveAlgorithmOptions" \notin class[i]
       /\ heap[callerOptions(i)].algorithmOptions \notin {None, ""}
       => /\ pc[i].call \in {"new", "__init__", "failed"}
          /\ resolved[i] = NoRef
          /\ BaseResolutionInvoked(i) =>
                /\ pc[i].call = "failed"
                /\ initResult[i].status = "raised"
                /\ initResult[i].exc.kind = "NotImplementedError"
                /\ initResult[i].exc = BaseRaises("_resolveAlgorithmOptions")

\* A constructor has failed in the base resolution.
C8_Witness ==
    \E i \in Svc :
       /\ BaseResolutionInvoked(i)
       /\ heap[callerOptions(i)].algorithmOptions = "-noSplitSubreads"
       /\ pc[i].call = "failed"

\* The step appends `member` to the calls of instance i's run().
Invokes(i, member) ==
    /\ Len(runCalls'[i]) > Len(runCalls[i])
    /\ runCalls'[i][Len(runCalls'[i])] = member

\* C9: reading scoreSign or cmd, or invoking _toCmd, _preProcess or
\* _postProcess, on an instance whose class does not override the member
\* raises NotImplementedError, and the step changes neither the options
\* nor the file set nor the temp-file managers.
C9_AbstractMembersRaiseWithoutEffect ==
    [][\A i \in Svc :
          /\ \A member \in {"cmd", "scoreSign"} :
                /\ lastAccess'.svc = i /\ lastAccess'.member = member
                /\ (IF member = "cmd" THEN "_toCmd" ELSE member) \notin class[i]
                => /\ lastAccess'.exc.kind = "NotImplementedError"
                   /\ UNCHANGED objects
          /\ \A member \in {"_preProcess", "_postProcess"} :
                Invokes(i, member) /\ member \notin class[i]
                => /\ runResult'[i].status = "raised"
                   /\ runResult'[i].exc.kind = "NotImplementedError"
                   /\ UNCHANGED objects
          /\ Invokes(i, "_toCmd") /\ "_toCmd" \notin class[i]
                => /\ execOutcome'[i].status = "raised"
                   /\ execOutcome'[i].exc.kind = "NotImplementedError"
                   /\ UNCHANGED objects
      ]_vars

\* A run() has ended in the NotImplementedError of the base _postProcess,
\* after a temp file was registered.
C9_Witness ==
    \E i \in Svc :
       /\ "_postProcess" \notin class[i]
       /\ runResult[i].exc = BaseRaises("_postProcess")
       /\ _fileNames[i].alignerSamOut # NoPath

\* C10 as stated: all temp files registered with one manager lie under one
\* root directory.
C10_AllAllocationsShareOneRoot ==
    \A a, b \in allocations : a.mgr = b.mgr => a.path.dir = b.path.dir

\* C10, amended: every constructor that is passed the manager sets the
\* manager's root to the tmpDir of its own resolved options, so each temp
\* file lies under the tmpDir of the instance whose constructor last set
\* the root before the file was registered.
C10_RootIsTmpDirOfLastConstructed ==
    \A a \in allocations :
       /\ a.scopedBy \in Svc
       /\ a.path.dir = heap[_options[a.scopedBy]].tmpDir

\* Two instances sharing the manager have registered temp files under
\* different root directories.
C10_Witness ==
    \E a, b \in allocations :
       /\ a.mgr = SharedMgr /\ b.mgr = SharedMgr
       /\ a.by # b.by
       /\ a.path.dir # b.path.dir

\* The constructor of instance i has returned.
Constructed(i) == pc[i].call \in {"ready", "run"}

\* C11: construction never changes the options object the caller passed
\* in, whether the constructor returns or fails; what resolution returns
\* is another object, and so is what the constructed service holds.
C11_InputOptionsUntouched ==
    /\ [][\A i \in Svc : pc[i].call # "absent" =>
             /\ callerOptions(i) \in DOMAIN heap'
             /\ heap'[callerOptions(i)] = heap[callerOptions(i)]]_vars
    /\ [](\A i \in Svc :
             /\ resolved[i] # NoRef => resolved[i] # callerOptions(i)
             /\ Constructed(i) =>
                   /\ _options[i] \in DOMAIN heap
                   /\ _options[i] # callerOptions(i))

\* A constructor has returned holding patched options while the caller's
\* object still has its tmpDir unset.
C11_Witness ==
    \E i \in Svc :
       /\ Constructed(i)
       /\ heap[callerOptions(i)].tmpDir = None
       /\ heap[_options[i]].tmpDir = "/scratch"

\* C12: once the default patch has been made, and so on a constructed
\* instance, no step of run() and no read of cmd or scoreSign changes the
\* options the service holds, neither the reference nor the content.
C12_OptionsFrozenAfterResolution ==
    [][\A i \in Svc :
          Count(ctorCalls[i], "importDefaultOptions") > 0 \/ Constructed(i)
          => /\ _options'[i] = _options[i]
             /\ heap'[_options[i]] = heap[_options[i]]]_vars

\* cmd has been read after a run() that went through all its steps.
C12_Witness ==
    \E i \in Svc :
       /\ lastAccess.svc = i /\ lastAccess.member = "cmd"
       /\ runResult[i].status = "returned"
       /\ _options[i] = Ref(i, "patched")

\* C13: SetInOutFiles is the first collaborator call of the constructor
\* and is given the file fields of the input options; when it raises, its
\* error leaves the constructor as it is, and no resolution, no default
\* patch and no temp-file manager action has taken place.
C13_FilesBoundFirst ==
    \A i \in Svc :
       /\ ctorCalls[i] # <<>> => ctorCalls[i][1] = "SetInOutFiles"
       /\ Count(ctorCalls[i], "SetInOutFiles") > 0 =>
             \/ _fileNames[i].outputFileName = heap[callerOptions(i)].outputFileName
             \/ /\ pc[i].call = "failed"
                /\ ctorCalls[i][Len(ctorCalls[i])] = "SetInOutFiles"
       /\ /\ pc[i].call = "failed"
          /\ ctorCalls[i][Len(ctorCalls[i])] = "SetInOutFiles"
          => /\ ctorCalls[i] = <<"SetInOutFiles">>
             /\ initResult[i].status = "raised"
             /\ initResult[i].exc \in SetInOutFilesErrors
             /\ _options[i] = callerOptions(i)
             /\ resolved[i] = NoRef
             /\ DOMAIN heap \cap {Ref(i, "resolved"), Ref(i, "patched")} = {}
             /\ _tempFileManager[i] = NoMgr
             /\ mgr[OwnMgr(i)] = TempFileManager("")
             /\ \A m \in Mgrs : scopedBy[m] # i /\ mgr[m].rootDir = ""

\* A constructor that was passed a manager has failed in SetInOutFiles.
C13_Witness ==
    \E i \in Svc :
       /\ pc[i].call = "failed"
       /\ ctorCalls[i] = <<"SetInOutFiles">>
       /\ tempFileManagerArg[i] = SharedMgr
       /\ _fileNames[i] = EmptyFiles

\* C14: when the constructor returns, the service holds the options
\* patched from the resolved ones and its manager is final: the manager
\* that was passed in, with its root set to the tmpDir of those options,
\* or else a manager of its own, new and rooted at that tmpDir.
C14_ManagerFinalized ==
    /\ [][\A i \in Svc : pc[i].call = "__init__" /\ pc'[i].call = "ready" =>
             LET tmpDir == heap'[_options'[i]].tmpDir
                 m == _tempFileManager'[i]
             IN  /\ _options'[i] = Ref(i, "patched")
                 /\ heap'[_options'[i]] = importDefaultOptions(heap'[resolved'[i]])
                 /\ tmpDir # None
                 /\ IF tempFileManagerArg[i] = NoMgr
                    THEN m = OwnMgr(i) /\ mgr'[m] = TempFileManager(tmpDir)
                    ELSE /\ m = tempFileManagerArg[i]
                         /\ mgr'[m].rootDir = tmpDir
                         /\ mgr'[m].files = mgr[m].files]_vars
    /\ [](\A i \in Svc : Constructed(i) =>
             _tempFileManager[i] = IF tempFileManagerArg[i] = NoMgr
                                   THEN OwnMgr(i) ELSE tempFileManagerArg[i])

\* A constructor that was passed the manager and options without tmpDir
\* has returned, and the manager is rooted at the default tmpDir.
C14_Witness ==
    \E i \in Svc :
       /\ Constructed(i)
       /\ tempFileManagerArg[i] = SharedMgr
       /\ heap[callerOptions(i)].tmpDir = None
       /\ _tempFileManager[i] = SharedMgr
       /\ mgr[SharedMgr].rootDir = "/scratch"

\* C15: every read of cmd yields the command _toCmd builds from the
\* options and the file set as they are at the read, so a read after
\* run() has set queryFileName and alignerSamOut shows both; and the read
\* changes neither the options nor the file set nor the managers.
C15_CmdComputedOnEachAccess ==
    /\ [](\A i \in Svc :
             /\ lastAccess.svc = i /\ lastAccess.member = "cmd"
             /\ "_toCmd" \in class[i]
             => /\ lastAccess.exc = NoExc
                /\ lastAccess.cmd = BackendToCmd(heap[_options[i]], _fileNames[i])
                /\ lastAccess.cmd.query = _fileNames[i].queryFileName
                /\ lastAccess.cmd.out = _fileNames[i].alignerSamOut)
    /\ [][lastAccess'.member = "cmd" => UNCHANGED objects]_vars

\* cmd has been read after a run() and names the query file and the temp
\* file of that run.
C15_Witness ==
    \E i \in Svc :
       /\ lastAccess.svc = i /\ lastAccess.member = "cmd"
       /\ lastAccess.cmd.query = "query.fasta"
       /\ lastAccess.cmd.out # NoPath
       /\ lastAccess.cmd.out = _fileNames[i].alignerSamOut

\* The calls of a run() that goes through all its phases.
FullRun ==
    <<"_preProcess", "RegisterNewTmpFile", "_execute", "_toCmd", "_postProcess">>

IsPrefix(s, t) == Len(s) <= Len(t) /\ \A k \in 1..Len(s) : s[k] = t[k]

AllocationsBy(i, allocs) == {a \in allocs : a.by = i}

\* C16: a run() goes through preprocessing, allocation, execution and
\* post-processing in this order and never back; it registers one temp
\* file and starts _execute once; and once called it ends, by returning or
\* by raising.
C16_RunIsLinear ==
    /\ [](\A i \in Svc :
             /\ IsPrefix(runCalls[i], FullRun)
             /\ runResult[i].status = "returned" => runCalls[i] = FullRun)
    /\ [][\A i \in Svc :
             /\ pc[i].call = "run" /\ pc'[i].call = "run"
                   => pc'[i].at = pc[i].at + 1
             /\ IF Invokes(i, "RegisterNewTmpFile") /\ pc'[i].call = "run"
                THEN Cardinality(AllocationsBy(i, allocations'))
                        = Cardinality(AllocationsBy(i, allocations)) + 1
                ELSE AllocationsBy(i, allocations')
                        = AllocationsBy(i, allocations)]_vars
    /\ \A i \in Svc : (pc[i].call = "run") ~> (pc[i].call = "ready")

\* A run() has returned after all its phases, with its one temp file.
C16_Witness ==
    \E i \in Svc :
       /\ runResult[i].status = "returned"
       /\ runCalls[i] = FullRun
       /\ runs = 1
       /\ Cardinality(AllocationsBy(i, allocations)) = 1

\* The errors a collaborator call can raise, by the call.
CollaboratorErrors(call) ==
    CASE call = "SetInOutFiles" -> SetInOutFilesErrors
      [] call = "_resolveAlgorithmOptions" -> {BaseRaises(call)}
      [] call = "importDefaultOptions" -> importDefaultOptionsErrors
      [] call \in {"TempFileManager", "RegisterNewTmpFile"} -> TempFileManagerErrors
      [] call = "_preProcess" -> PreProcessErrors \cup {BaseRaises(call)}
      [] call = "_postProcess" -> PostProcessErrors \cup {BaseRaises(call)}
      [] OTHER -> {}

LastOf(s) == s[Len(s)]

\* C17: no error is swallowed.  The constructor returns only after all four
\* collaborator calls returned, and run() only after all its calls did;
\* when a call raises, the constructor or run() raises, with the very
\* error of the call unless the call is _execute.
C17_NoErrorSwallowed ==
    \A i \in Svc :
       /\ (pc[i].call = "failed") = (initResult[i].status = "raised")
       /\ initResult[i].status = "raised" =>
             initResult[i].exc \in CollaboratorErrors(LastOf(ctorCalls[i]))
       /\ initResult[i].status = "returned" =>
             ctorCalls[i] = <<"SetInOutFiles", "_resolveAlgorithmOptions",
                              "importDefaultOptions", "TempFileManager">>
       /\ execOutcome[i].status = "raised" =>
             /\ runResult[i].status = "raised"
             /\ runResult[i].exc # NoExc
             /\ LastOf(runCalls[i]) = "_toCmd"
       /\ runResult[i].status = "raised" /\ execOutcome[i].status # "raised" =>
             runResult[i].exc \in CollaboratorErrors(LastOf(runCalls[i]))
       /\ runResult[i].status = "returned" =>
             /\ runCalls[i] = FullRun
             /\ execOutcome[i].status = "returned"

\* RegisterNewTmpFile has raised and its error has left run().
C17_Witness ==
    \E i \in Svc :
       /\ runResult[i].status = "raised"
       /\ LastOf(runCalls[i]) = "RegisterNewTmpFile"
       /\ runResult[i].exc \in TempFileManagerErrors

\* C18: when _execute starts, queryFileName holds what _preProcess
\* returned and alignerSamOut the path RegisterNewTmpFile just returned,
\* and the command _execute builds has both; queryFileName is assigned
\* before the temp file is registered.
C18_ExecuteSeesQueryAndOutput ==
    /\ [](\A i \in Svc :
             /\ AtRun(i, "_execute") =>
                   /\ runCalls[i] = <<"_preProcess", "RegisterNewTmpFile">>
                   /\ _fileNames[i].queryFileName \in QueryFileNames
                   /\ _fileNames[i].alignerSamOut # NoPath
                   /\ _fileNames[i].alignerSamOut
                         = LastOf(mgr[_tempFileManager[i]].files)
             /\ execOutcome[i].status # "none" /\ "_toCmd" \in class[i] =>
                   /\ execOutcome[i].cmd.query \in QueryFileNames
                   /\ execOutcome[i].cmd.query = _fileNames[i].queryFileName
                   /\ execOutcome[i].cmd.out # NoPath
                   /\ execOutcome[i].cmd.out = _fileNames[i].alignerSamOut)
    /\ [][\A i \in Svc :
             /\ Invokes(i, "_preProcess") /\ pc'[i].call = "run" =>
                   _fileNames'[i].queryFileName \in QueryFileNames
             /\ Invokes(i, "RegisterNewTmpFile") =>
                   /\ runCalls[i] = <<"_preProcess">>
                   /\ _fileNames[i].queryFileName \in QueryFileNames
                   /\ _fileNames'[i].queryFileName = _fileNames[i].queryFileName
         ]_vars

\* _execute is about to start in a second run(), with the second temp file.
C18_Witness ==
    \E i \in Svc :
       /\ AtRun(i, "_execute")
       /\ _fileNames[i].queryFileName = "query.fasta"
       /\ _fileNames[i].alignerSamOut.n = 2

\* C19: when _preProcess raises, run() raises that error at once: the file
\* set is as before, no temp file has been registered in this run, and
\* neither _execute nor _postProcess has been invoked.
C19_PreProcessRaisesLeavesNoTrace ==
    /\ [][\A i \in Svc : Invokes(i, "_preProcess") /\ pc'[i].call # "run" =>
             /\ pc'[i].call = "ready"
             /\ runResult'[i].status = "raised"
             /\ runResult'[i].exc \in PreProcessErrors \cup {BaseRaises("_preProcess")}
             /\ runCalls'[i] = <<"_preProcess">>
             /\ execOutcome'[i] = NoOutcome
             /\ UNCHANGED <<_fileNames, mgr, allocations>>]_vars
    /\ [](\A i \in Svc :
             RunEnded(i) /\ LastOf(runCalls[i]) = "_preProcess" =>
                /\ runCalls[i] = <<"_preProcess">>
                /\ runResult[i].status = "raised"
                /\ execOutcome[i] = NoOutcome)

\* The run() of an instance of the base class has ended in the
\* NotImplementedError of _preProcess, with no query file and no temp file.
C19_Witness ==
    \E i \in Svc :
       /\ runResult[i].exc = BaseRaises("_preProcess")
       /\ _fileNames[i].queryFileName = None
       /\ _fileNames[i].alignerSamOut = NoPath
       /\ allocations = {}

====
